---- MODULE Spec2Model ----
(***************************************************************************)
(* Model of the /protect request handler of src/app.py (protect_apk): the  *)
(* job lifecycle validate -> stage -> probe -> invoke tool -> resolve ->   *)
(* verify -> restore cwd -> sweep -> load -> cleanup -> respond, for       *)
(* several requests handled concurrently by one process.  The process     *)
(* working directory and the file system are shared by all jobs.          *)
(***************************************************************************)
EXTENDS Integers, Sequences, FiniteSets, TLC

(***************************************************************************)
(* Bounds of the model.                                                    *)
(***************************************************************************)
NumJobs == 2

Jobs == 1..NumJobs

(***************************************************************************)
(* Program constants.                                                      *)
(***************************************************************************)
MAX_CONTENT_LENGTH == 150 * 1024 * 1024
max_size == 150 * 1024 * 1024

None == "None"

(***************************************************************************)
(* File names are sequences of characters.                                 *)
(***************************************************************************)
lower(s) ==
  [i \in 1..Len(s) |->
     CASE s[i] = "A" -> "a"
       [] s[i] = "B" -> "b"
       [] s[i] = "K" -> "k"
       [] s[i] = "P" -> "p"
       [] OTHER -> s[i]]

endswith(s, suf) ==
  /\ Len(s) >= Len(suf)
  /\ SubSeq(s, Len(s) - Len(suf) + 1, Len(s)) = suf

startswith(s, pre) ==
  /\ Len(s) >= Len(pre)
  /\ SubSeq(s, 1, Len(pre)) = pre

DotApk == <<".", "a", "p", "k">>
DotAab == <<".", "a", "a", "b">>
Marker == <<"p", "r", "o", "t", "e", "c", "t", "e", "d", "_">>

\* Mutant of ExtensionAccepted: any name with an extension is accepted.
ExtensionAccepted_AnyDot(filename) == \E i \in 1..Len(filename) : filename[i] = "."

\* file.filename.lower().endswith(('.apk', '.aab'))
ExtensionAccepted(filename) ==
  \/ endswith(lower(filename), DotApk)
  \/ endswith(lower(filename), DotAab)

\* Mutant of AlreadyProtected: the marker is looked for at the end of the name.
AlreadyProtected_AtEnd(filename) == endswith(filename, Marker)

\* original_filename.startswith('protected_')
AlreadyProtected(filename) == startswith(filename, Marker)

\* werkzeug.utils.secure_filename as used for the staged path and the download
\* name: only ASCII letters, digits, "_", "." and "-" are kept, blanks become
\* "_", and leading or trailing "." and "_" are stripped.
SafeChars ==
  {"a", "b", "c", "d", "e", "k", "o", "p", "r", "t", "x",
   "A", "B", "K", "P", "_", ".", "-", "1"}

RECURSIVE KeepSafe(_)
KeepSafe(s) ==
  IF s = <<>> THEN <<>>
  ELSE IF Head(s) \in SafeChars THEN <<Head(s)>> \o KeepSafe(Tail(s))
  ELSE IF Head(s) = " " THEN <<"_">> \o KeepSafe(Tail(s))
  ELSE KeepSafe(Tail(s))

RECURSIVE StripLeft(_)
StripLeft(s) ==
  IF s # <<>> /\ Head(s) \in {".", "_"} THEN StripLeft(Tail(s)) ELSE s

RECURSIVE StripRight(_)
StripRight(s) ==
  IF s # <<>> /\ s[Len(s)] \in {".", "_"}
  THEN StripRight(SubSeq(s, 1, Len(s) - 1))
  ELSE s

secure_filename(s) == StripRight(StripLeft(KeepSafe(s)))

(***************************************************************************)
(* Responses.  jsonify({'error': ..., 'details': ...}), status  and the    *)
(* 200 Response carrying the output bytes.                                 *)
(***************************************************************************)
NoResponse ==
  [status |-> 0, error |-> None, details |-> None, body |-> <<>>,
   filename |-> <<>>, content_length |-> 0]

ErrorResponse(status, error, details) ==
  [status |-> status, error |-> error, details |-> details, body |-> <<>>,
   filename |-> <<>>, content_length |-> 0]

\* Mutant of FileResponse: the Content-Length header is left at 0.
FileResponse_NoLength(file_data, output_filename) ==
  [status |-> 200, error |-> None, details |-> None, body |-> file_data,
   filename |-> output_filename, content_length |-> 0]

FileResponse(file_data, output_filename) ==
  [status |-> 200, error |-> None, details |-> None, body |-> file_data,
   filename |-> output_filename, content_length |-> Len(file_data)]

E_NoFile == "No APK file provided"
E_NoFilename == "No file selected"
E_InvalidType == "Invalid file type. Only APK and AAB files are supported"
E_TooLarge == "File size exceeds maximum allowed size (150 MB)"
E_AlreadyProtected == "This file appears to be already protected"
E_Java == "Java JDK 21 is not installed or not found in PATH"
E_ProtectionFailed == "Protection failed"
E_NoOutput == "No output file generated"
E_EmptyOutput == "Protected file is empty"
E_ReadFailed == "Failed to read protected file"
E_Timeout == "Process timed out"
E_RunError == "Error running protection"
E_ServerError == "Server error"

\* The outer "except Exception" of protect_apk: every exception that escapes
\* the body becomes a 500 'Server error: ...' response; nothing is cleaned up.
OuterExcept(exc) == ErrorResponse(500, E_ServerError, exc)

(***************************************************************************)
(* Requests.  A multipart request carries the file part and the framing    *)
(* around it (boundaries and part headers), so its Content-Length is the   *)
(* file's byte length plus a positive overhead.                            *)
(***************************************************************************)
ContentLength(req) ==
  IF req.has_file THEN req.file_size_bytes + req.overhead ELSE req.overhead

\* Flask/werkzeug with app.config['MAX_CONTENT_LENGTH']: the first access to
\* request.files parses the body and raises RequestEntityTooLarge when the
\* request's Content-Length exceeds the limit.
RequestFilesRaises(req) == ContentLength(req) > MAX_CONTENT_LENGTH

\* Lines 47-97 of protect_apk: the response of a rejected request, or
\* NoResponse when every validation check passed.
Validate(req) ==
  IF RequestFilesRaises(req)
    THEN OuterExcept("RequestEntityTooLarge")
  ELSE IF ~req.has_file
    THEN ErrorResponse(400, E_NoFile, None)
  ELSE IF req.filename = <<>>
    THEN ErrorResponse(400, E_NoFilename, None)
  ELSE IF ~ExtensionAccepted(req.filename)
    THEN ErrorResponse(400, E_InvalidType, None)
  ELSE IF req.file_size_bytes > max_size
    THEN ErrorResponse(400, E_TooLarge, None)
  ELSE IF AlreadyProtected(req.filename)
    THEN ErrorResponse(400, E_AlreadyProtected, None)
  ELSE NoResponse

(***************************************************************************)
(* Inputs of the model: uploads, and what the external programs do.        *)
(***************************************************************************)
N_empty == <<>>
N_a_apk == <<"a", ".", "a", "p", "k">>
N_A_APK == <<"A", ".", "A", "P", "K">>
N_b_aab == <<"b", ".", "a", "a", "b">>
N_a_txt == <<"a", ".", "t", "x", "t">>
N_protected_a_apk == Marker \o N_a_apk
N_protected_a_txt == Marker \o N_a_txt

FileNames ==
  {N_empty, N_a_apk, N_A_APK, N_b_aab, N_a_txt, N_protected_a_apk,
   N_protected_a_txt}

Sizes == {0, 1, max_size - 1, max_size, max_size + 1}

Overheads == {1, 2}

\* The option fields of the multipart form.  A flag field is 'true', some
\* other text, or absent (request.form.get gives None); exclude_abis is the
\* text request.form.get('exclude_abis', '') gives, in pieces of which " " is
\* white space.
FlagValues == {"true", "false", None}
Abis_x86 == "x86,x86_64"
AbisValues == {<<>>, <<" ">>, <<Abis_x86>>, <<" ", Abis_x86, " ">>}

Forms ==
  [debug : FlagValues, disable_acf : FlagValues, dump_code : FlagValues,
   keep_classes : FlagValues, noisy_log : FlagValues, smaller : FlagValues,
   exclude_abis : AbisValues, use_protect_config : FlagValues]

\* A form without option fields.
NoForm ==
  [debug |-> None, disable_acf |-> None, dump_code |-> None,
   keep_classes |-> None, noisy_log |-> None, smaller |-> None,
   exclude_abis |-> <<>>, use_protect_config |-> None]

NoFileRequests ==
  [has_file : {FALSE}, filename : {N_empty}, file_size_bytes : {0},
   overhead : Overheads, form : {NoForm}]

AllRequests ==
  [has_file : {TRUE}, filename : FileNames, file_size_bytes : Sizes,
   overhead : Overheads, form : {NoForm}] \cup NoFileRequests

\* One valid upload with every form of the model.
FormRequests ==
  [has_file : {TRUE}, filename : {N_a_apk}, file_size_bytes : {1},
   overhead : {1}, form : Forms]

\* The uploads used when several jobs run together: one that passes
\* validation and one that does not.
Requests ==
  {r \in AllRequests :
     /\ r.has_file
     /\ r.overhead = 1
     /\ r.filename \in {N_a_apk, N_protected_a_apk}
     /\ r.file_size_bytes = 1}

NoRequest ==
  [has_file |-> FALSE, filename |-> N_empty, file_size_bytes |-> 0,
   overhead |-> 0, form |-> NoForm]

\* What subprocess.run returns for the protection tool.
ToolResults == [returncode : {0, 1}, stdout : {"", "out"}, stderr : {"", "err"}]

\* The files the tool left under output_dir, in os.walk order.
F_apk == [name |-> N_a_apk, data |-> <<1, 2>>]
F_empty == [name |-> N_b_aab, data |-> <<>>]
F_upper == [name |-> N_A_APK, data |-> <<3>>]
F_json == [name |-> <<"x", ".", "j", "s", "o", "n">>, data |-> <<4>>]

OutputListings ==
  {<<>>, <<F_json>>, <<F_apk>>, <<F_empty>>, <<F_upper>>,
   <<F_json, F_empty, F_apk>>}

\* The bytes of an upload: none for an empty part, else a content that no
\* other file of the model has.
UploadData(r) == IF r.file_size_bytes = 0 THEN <<>> ELSE <<5, 6>>

\* What a tool that copies its input leaves under output_dir: the staged
\* file of line 106, secure_filename(file.filename), with the upload's bytes.
CopyListing(r) ==
  <<[name |-> secure_filename(r.filename), data |-> UploadData(r)]>>

\* The tool behaviours used when several jobs run together.
JobToolResults ==
  {r \in ToolResults : (r.stdout = "") /\ (r.stderr = "err" <=> r.returncode # 0)}

JobListings == {<<>>, <<F_apk>>}

\* A run of the tool: what subprocess.run returns and what the tool left
\* under output_dir.
Runs(results, listings) ==
  {[result |-> r, listing |-> l] : r \in results, l \in listings}

\* The runs used when several jobs run together: each listing after exit
\* code 0, and a failed run that left a package behind.
JobRuns ==
  Runs({r \in JobToolResults : r.returncode = 0}, JobListings)
    \cup Runs({r \in JobToolResults : r.returncode # 0}, {<<F_apk>>})

\* Directories of the project root: a name and whether the tree holds a
\* '.json' file.
D_pkg == [name |-> <<"c", ".", "a">>, has_json |-> TRUE]
D_dotted == [name |-> <<"s", ".", "v">>, has_json |-> FALSE]
D_plain == [name |-> <<"t">>, has_json |-> FALSE]

D_hidden == [name |-> <<".", "g">>, has_json |-> TRUE]

ProjectRootDirs == {D_pkg, D_dotted, D_plain, D_hidden}

\* Directories a working directory can name: the directory the server was
\* started in, and the workspaces mkdtemp creates.
StartDir == <<"project_root", 0>>
TmpName(n) == <<"apk_protect_", n>>
TmpNames == {TmpName(n) : n \in 1..NumJobs}
NoDir == <<"None", 0>>

NoResult == [returncode |-> -1, stdout |-> "", stderr |-> ""]

(***************************************************************************)
(* State.                                                                  *)
(***************************************************************************)
VARIABLES
  pc,            \* where each job's handler stands
  req,           \* the request a job handles
  temp_dir,      \* the job's workspace (mkdtemp), None before it exists
  original_cwd,  \* the job's local of that name
  result,        \* what subprocess.run returned for the tool
  exc,           \* the exception the handlers of lines 495 and 525 caught
  output_files,  \* the matching files found under output_dir
  file_data,     \* the bytes read from output_files[0]
  response,      \* the response the handler returned
  child_cwd,     \* the working directory the tool's child process started in
  child,         \* the tool's child process: "none", "running", "exited", "killed"
  probes,        \* number of 'java -version' runs of the job
  launches,      \* number of tool runs of the job
  saved,         \* whether file.save wrote the upload into the workspace
  written,       \* the files the tool left under output_dir
  apksigner,     \* how the apksigner run ended, "not_run" before
  jarsigner,     \* how the jarsigner run ended, "not_run" before
  signature_valid, \* the local of that name
  java_check,    \* how the 'java -version' probe ended, "none" before it ran
  cmd,           \* the argument vector built for the tool
  config_checked, \* os.path.exists(config_file): "unchecked", "exists", "missing"
  cwd,           \* the process working directory
  dirs,          \* the workspaces that exist in the file system
  created,       \* the names mkdtemp has handed out
  rootDirs       \* the directories present in the project root

vars ==
  <<pc, req, temp_dir, original_cwd, result, exc, output_files, file_data,
    response, child, child_cwd, probes, launches, saved, written, apksigner, jarsigner,
    signature_valid, java_check, cmd,
    config_checked, cwd, dirs, created, rootDirs>>

Init ==
  /\ pc = [j \in Jobs |-> "idle"]
  /\ req = [j \in Jobs |-> NoRequest]
  /\ temp_dir = [j \in Jobs |-> NoDir]
  /\ original_cwd = [j \in Jobs |-> NoDir]
  /\ result = [j \in Jobs |-> NoResult]
  /\ exc = [j \in Jobs |-> None]
  /\ output_files = [j \in Jobs |-> <<>>]
  /\ file_data = [j \in Jobs |-> <<>>]
  /\ response = [j \in Jobs |-> NoResponse]
  /\ child = [j \in Jobs |-> "none"]
  /\ child_cwd = [j \in Jobs |-> NoDir]
  /\ probes = [j \in Jobs |-> 0]
  /\ launches = [j \in Jobs |-> 0]
  /\ saved = [j \in Jobs |-> FALSE]
  /\ written = [j \in Jobs |-> <<>>]
  /\ apksigner = [j \in Jobs |-> "not_run"]
  /\ jarsigner = [j \in Jobs |-> "not_run"]
  /\ signature_valid = [j \in Jobs |-> FALSE]
  /\ java_check = [j \in Jobs |-> "none"]
  /\ cmd = [j \in Jobs |-> <<>>]
  /\ config_checked = [j \in Jobs |-> "unchecked"]
  /\ cwd = StartDir
  /\ dirs = {}
  /\ created = {}
  /\ rootDirs = ProjectRootDirs

\* Mutant of Mkdtemp: every call gives the same directory.
Mkdtemp_Same(used) == TmpName(1)

\* tempfile.mkdtemp: a directory name that was never handed out before.
Mkdtemp(used) == TmpName(Cardinality(used) + 1)

\* os.path.exists / what os.chdir and os.getcwd need of a directory.
Exists(d, ds) == d = StartDir \/ d \in ds

\* Mutant of Return: after the response the request is handled again.
Return_Retry(j, r) ==
  /\ response' = [response EXCEPT ![j] = r]
  /\ pc' = [pc EXCEPT ![j] = "idle"]

\* return <response>: the handler ends.
Return(j, r) ==
  /\ response' = [response EXCEPT ![j] = r]
  /\ pc' = [pc EXCEPT ![j] = "done"]

\* One element of an argument vector: a literal, a path below a directory,
\* or the value given to '-e'.
Lit(s) == <<s>>
Path(dir, names) == <<"path", dir, names>>
Value(v) == <<"value", v>>

\* os.path.dirname(__file__), the directory of app.py.
AppDir == <<"app_dir", 0>>

\* Line 37: DPT_JAR_PATH.
DPT_JAR_PATH == Path(AppDir, <<"executable", "dpt.jar">>)

\* Line 200: config_file.
config_file ==
  Path(AppDir, <<"executable", "dpt-protect-config-template.json">>)

\* Lines 117-125: java_cmd.
java_cmd == Lit("java")

\* Line 106: os.path.join(temp_dir, secure_filename(file.filename)).
input_file_path(dir, filename) == Path(dir, secure_filename(filename))

\* Line 107: os.path.join(temp_dir, 'output').
output_dir(dir) == Path(dir, <<"output">>)

\* str.strip() on the pieces of a text.
RECURSIVE strip(_)
strip(s) ==
  IF s = <<>> THEN <<>>
  ELSE IF Head(s) = " " THEN strip(Tail(s))
  ELSE IF s[Len(s)] = " " THEN strip(SubSeq(s, 1, Len(s) - 1))
  ELSE s

\* Mutant of IsTrue: any text sent for the field selects the option.
IsTrue_Truthy(v) == v # None

\* request.form.get(name) == 'true'
IsTrue(v) == v = "true"

\* Mutant of BuildCmd: '-S' comes before '--noisy-log'.
BuildCmd_Reordered(form, input, output, config_exists) ==
  <<java_cmd, Lit("-jar"), DPT_JAR_PATH, Lit("-f"), input, Lit("-o"), output>>
    \o (IF IsTrue(form.debug) THEN <<Lit("--debug")>> ELSE <<>>)
    \o (IF IsTrue(form.disable_acf) THEN <<Lit("--disable-acf")>> ELSE <<>>)
    \o (IF IsTrue(form.dump_code) THEN <<Lit("--dump-code")>> ELSE <<>>)
    \o (IF IsTrue(form.keep_classes) THEN <<Lit("-K")>> ELSE <<>>)
    \o (IF IsTrue(form.smaller) THEN <<Lit("-S")>> ELSE <<>>)
    \o (IF IsTrue(form.noisy_log) THEN <<Lit("--noisy-log")>> ELSE <<>>)
    \o (IF strip(form.exclude_abis) # <<>>
          THEN <<Lit("-e"), Value(strip(form.exclude_abis))>> ELSE <<>>)
    \o (IF IsTrue(form.use_protect_config) /\ config_exists
          THEN <<Lit("-c"), config_file>> ELSE <<>>)

\* Lines 164-203: cmd, the argument vector of the tool.
BuildCmd(form, input, output, config_exists) ==
  <<java_cmd, Lit("-jar"), DPT_JAR_PATH, Lit("-f"), input, Lit("-o"), output>>
    \o (IF IsTrue(form.debug) THEN <<Lit("--debug")>> ELSE <<>>)
    \o (IF IsTrue(form.disable_acf) THEN <<Lit("--disable-acf")>> ELSE <<>>)
    \o (IF IsTrue(form.dump_code) THEN <<Lit("--dump-code")>> ELSE <<>>)
    \o (IF IsTrue(form.keep_classes) THEN <<Lit("-K")>> ELSE <<>>)
    \o (IF IsTrue(form.noisy_log) THEN <<Lit("--noisy-log")>> ELSE <<>>)
    \o (IF IsTrue(form.smaller) THEN <<Lit("-S")>> ELSE <<>>)
    \o (IF strip(form.exclude_abis) # <<>>
          THEN <<Lit("-e"), Value(strip(form.exclude_abis))>> ELSE <<>>)
    \o (IF IsTrue(form.use_protect_config) /\ config_exists
          THEN <<Lit("-c"), config_file>> ELSE <<>>)

\* Python's "a or b" on strings: the first non-empty one.
StrOr(a, b) == IF a # "" THEN a ELSE b

\* f.endswith(('.apk', '.aab')) of the output scan (no case folding).
OutputMatches(f) == endswith(f.name, DotApk) \/ endswith(f.name, DotAab)

\* Mutant of ScanOutput: the extension is matched without regard to case.
ScanOutput_IgnoreCase(listing) ==
  SelectSeq(listing, LAMBDA f : endswith(lower(f.name), DotApk)
                                  \/ endswith(lower(f.name), DotAab))

\* The output scan: the matching files in traversal order.
ScanOutput(listing) == SelectSeq(listing, OutputMatches)

\* '.' in item and item != 'venv' and not item.startswith('.')
LooksLikePackage(item) ==
  /\ \E i \in 1..Len(item) : item[i] = "."
  /\ item # <<"v", "e", "n", "v">>
  /\ ~startswith(item, <<".">>)

\* The sweep of the project root on the success path: package-like
\* directories holding a '.json' file are removed.
SweepDumpFolders(rd) == {d \in rd : ~(LooksLikePackage(d.name) /\ d.has_json)}

\* The sweep of the timeout and exception handlers: every package-like
\* directory is removed.
SweepPackageFolders(rd) == {d \in rd : ~LooksLikePackage(d.name)}

\* What can go wrong while cleaning up: rmtree cannot remove the tree
\* (ignore_errors=True leaves it in place), or os.listdir(project_root)
\* raises before anything is swept.
CleanupFaults == {"none", "rmtree", "listdir"}

NoFaults == {"none"}

\* Mutant of CleanupRaises: a failing os.listdir escapes the cleanup.
CleanupRaises_Listdir(fault) == fault = "listdir"

\* Lines 381, 441, 522 and 562: the "except" around each cleanup catches
\* whatever it raised.
CleanupRaises(fault) == FALSE

\* Mutant of Rmtree: the removal is left out.
Rmtree_Skipped(ds, d) == ds

\* shutil.rmtree(temp_dir, ignore_errors=True)
Rmtree(ds, d) == ds \ {d}

\* shutil.rmtree(temp_dir, ignore_errors=True) under a fault.
RmtreeUnder(ds, d, fault) == IF fault = "rmtree" THEN ds ELSE Rmtree(ds, d)

\* A sweep of the project root under a fault: swept is what it leaves when
\* os.listdir answers.
SweepUnder(rd, swept, fault) == IF fault = "listdir" THEN rd ELSE swept

\* "try: os.chdir(original_cwd) / except: pass" of the two handlers.
TryChdir(target, current, ds) == IF Exists(target, ds) THEN target ELSE current

\* output_filename = f"protected_{secure_filename(file.filename)}"
OutputFilename(filename) == Marker \o secure_filename(filename)

(***************************************************************************)
(* The steps of protect_apk for job j.                                     *)
(***************************************************************************)

\* Lines 47-97: the request arrives and is validated.
Receive(j, r) ==
  /\ pc[j] = "idle"
  /\ req' = [req EXCEPT ![j] = r]
  /\ IF Validate(r) = NoResponse
       THEN /\ pc' = [pc EXCEPT ![j] = "validated"]
            /\ UNCHANGED response
       ELSE Return(j, Validate(r))
  /\ UNCHANGED <<temp_dir, original_cwd, result, exc, output_files, file_data,
                 child, probes, launches, cwd, dirs, created, rootDirs,
                 written, java_check, cmd, config_checked, saved, apksigner,
                 jarsigner, signature_valid, child_cwd>>

\* Lines 99-114: mkdtemp, os.makedirs(output_dir), file.save.  mkdtemp may
\* fail before any directory exists; makedirs or save may fail after it.
Stage(j) ==
  /\ pc[j] = "validated"
  /\ \E fault \in {"none", "mkdtemp", "save"} :
       IF fault = "mkdtemp"
         THEN /\ Return(j, OuterExcept("OSError"))
              /\ UNCHANGED <<temp_dir, dirs, created, saved>>
         ELSE /\ temp_dir' = [temp_dir EXCEPT ![j] = Mkdtemp(created)]
              /\ dirs' = dirs \cup {Mkdtemp(created)}
              /\ created' = created \cup {Mkdtemp(created)}
              /\ IF fault = "save"
                   THEN /\ Return(j, OuterExcept("OSError"))
                        /\ UNCHANGED saved
                   ELSE /\ saved' = [saved EXCEPT ![j] = TRUE]
                        /\ pc' = [pc EXCEPT ![j] = "staged"]
                        /\ UNCHANGED response
  /\ UNCHANGED <<req, original_cwd, result, exc, output_files, file_data,
                 child, probes, launches, cwd, rootDirs, written, java_check,
                 cmd, config_checked, apksigner, jarsigner, signature_valid,
                 child_cwd>>

\* Mutant of ProbeRaises: only a missing runtime ends the job.
ProbeRaises_OnlyNotFound(outcome) == outcome = "FileNotFoundError"

\* Lines 131-162: subprocess.run of the probe raises TimeoutExpired after 5
\* seconds, FileNotFoundError, or another exception; each handler returns.
ProbeRaises(outcome) == outcome # "ok"

\* Lines 116-210: the 'java -version' probe with its 5 second timeout; when
\* it answers, the argument vector of the tool is built from the form.
Probe(j) ==
  /\ pc[j] = "staged"
  /\ probes' = [probes EXCEPT ![j] = @ + 1]
  /\ \E outcome \in {"ok", "TimeoutExpired", "FileNotFoundError", "Exception"} :
     /\ java_check' = [java_check EXCEPT ![j] = outcome]
     /\ IF ProbeRaises(outcome)
         THEN /\ Return(j, ErrorResponse(500, E_Java,
                   IF outcome = "Exception"
                     THEN "Error: Exception"
                     ELSE "Please ensure Java JDK 21 is installed"))
              /\ UNCHANGED <<cmd, config_checked>>
         ELSE /\ \E config_exists \in
                     IF IsTrue(req[j].form.use_protect_config)
                       THEN BOOLEAN ELSE {FALSE} :
                   /\ cmd' = [cmd EXCEPT ![j] =
                        BuildCmd(req[j].form,
                                 input_file_path(temp_dir[j], req[j].filename),
                                 output_dir(temp_dir[j]), config_exists)]
                   /\ config_checked' = [config_checked EXCEPT ![j] =
                        IF ~IsTrue(req[j].form.use_protect_config)
                          THEN "unchecked"
                          ELSE IF config_exists THEN "exists" ELSE "missing"]
              /\ pc' = [pc EXCEPT ![j] = "probed"]
              /\ UNCHANGED response
  /\ UNCHANGED <<req, temp_dir, original_cwd, result, exc, output_files,
                 file_data, child, launches, cwd, dirs, created, rootDirs,
                 written, saved, apksigner, jarsigner, signature_valid,
                 child_cwd>>

\* Line 213: original_cwd = os.getcwd(), which raises when the working
\* directory has been removed.
GetCwd(j) ==
  /\ pc[j] = "probed"
  /\ IF Exists(cwd, dirs)
       THEN /\ original_cwd' = [original_cwd EXCEPT ![j] = cwd]
            /\ pc' = [pc EXCEPT ![j] = "cwd_saved"]
            /\ UNCHANGED response
       ELSE /\ Return(j, OuterExcept("FileNotFoundError"))
            /\ UNCHANGED original_cwd
  /\ UNCHANGED <<req, temp_dir, result, exc, output_files, file_data, child,
                 probes, launches, cwd, dirs, created, rootDirs, written,
                 java_check, cmd, config_checked, saved, apksigner, jarsigner,
                 signature_valid, child_cwd>>

\* Line 217: os.chdir(temp_dir).
Chdir(j) ==
  /\ pc[j] = "cwd_saved"
  /\ cwd' = temp_dir[j]
  /\ pc' = [pc EXCEPT ![j] = "in_ws"]
  /\ UNCHANGED <<req, temp_dir, original_cwd, result, exc, output_files,
                 file_data, response, child, probes, launches, dirs, created,
                 rootDirs, written, java_check, cmd, config_checked, saved,
                 apksigner, jarsigner, signature_valid, child_cwd>>

\* Mutant of PopenCwd: the child inherits the working directory of the
\* server process.
PopenCwd_Inherited(given, process) == process

\* Line 228: cwd=temp_dir; the child changes to the directory it is given
\* whatever the working directory of the server process is.
PopenCwd(given, process) == given

\* Line 223: subprocess.run starts the tool, or raises without a child
\* (handler of line 525: the working directory is restored if possible).
Launch(j) ==
  /\ pc[j] = "in_ws"
  /\ launches' = [launches EXCEPT ![j] = @ + 1]
  /\ \E started \in BOOLEAN :
       IF started
         THEN /\ child' = [child EXCEPT ![j] = "running"]
              /\ child_cwd' = [child_cwd EXCEPT ![j] = PopenCwd(temp_dir[j], cwd)]
              /\ pc' = [pc EXCEPT ![j] = "running"]
              /\ UNCHANGED <<exc, cwd>>
         ELSE /\ exc' = [exc EXCEPT ![j] = "OSError"]
              /\ cwd' = TryChdir(original_cwd[j], cwd, dirs)
              /\ pc' = [pc EXCEPT ![j] = "except_cleanup"]
              /\ UNCHANGED <<child, child_cwd>>
  /\ UNCHANGED <<req, temp_dir, original_cwd, result, output_files, file_data,
                 response, probes, dirs, created, rootDirs, written,
                 java_check, cmd, config_checked, saved, apksigner, jarsigner,
                 signature_valid>>

\* Lines 223-229 and 495-500: the 300 second timeout expires; subprocess.run
\* kills the child and raises TimeoutExpired; the handler restores the
\* working directory if it can.
ToolTimeout(j) ==
  /\ pc[j] = "running"
  /\ child' = [child EXCEPT ![j] = "killed"]
  /\ exc' = [exc EXCEPT ![j] = "TimeoutExpired"]
  /\ cwd' = TryChdir(original_cwd[j], cwd, dirs)
  /\ pc' = [pc EXCEPT ![j] = "timeout_cleanup"]
  /\ UNCHANGED <<req, temp_dir, original_cwd, result, output_files, file_data,
                 response, probes, launches, dirs, created, rootDirs, written,
                 java_check, cmd, config_checked, saved, apksigner, jarsigner,
                 signature_valid, child_cwd>>

\* Mutant of ToolFailed: the exit code is not looked at.
ToolFailed_Never(r) == FALSE

\* Line 233: result.returncode != 0.
ToolFailed(r) == r.returncode # 0

\* Lines 231-269: the tool exits; a non-zero code and an empty scan end the
\* job.  The streams of result are not read after line 266 and are dropped
\* on the way on.
ToolExits(j, runs) ==
  /\ pc[j] = "running"
  /\ child' = [child EXCEPT ![j] = "exited"]
  /\ \E run \in runs :
     LET r == run.result
         listing == run.listing IN
     /\ written' = [written EXCEPT ![j] = listing]
     /\ IF ToolFailed(r)
         THEN /\ result' = [result EXCEPT ![j] = r]
              /\ Return(j, ErrorResponse(500, E_ProtectionFailed,
                                         StrOr(r.stderr, r.stdout)))
              /\ UNCHANGED output_files
         ELSE IF ScanOutput(listing) = <<>>
           THEN /\ result' = [result EXCEPT ![j] = r]
                /\ Return(j, ErrorResponse(500, E_NoOutput,
                     StrOr(r.stdout, StrOr(r.stderr,
                       "No output file found in output directory"))))
                /\ UNCHANGED output_files
           ELSE /\ result' = [result EXCEPT ![j] =
                                [r EXCEPT !.stdout = "", !.stderr = ""]]
                /\ output_files' = [output_files EXCEPT ![j] = ScanOutput(listing)]
                /\ pc' = [pc EXCEPT ![j] = "resolved"]
                /\ UNCHANGED response
  /\ UNCHANGED <<req, temp_dir, original_cwd, exc, file_data, probes, launches,
                 cwd, dirs, created, rootDirs, java_check, cmd, config_checked,
                 saved, apksigner, jarsigner, signature_valid, child_cwd>>

\* What a verifier run can give: no usable apksigner, an exit code, an
\* exception of subprocess.run; for jarsigner an exit code 0 with or without
\* 'jar verified' in its output.  "discovery_error" is an exception raised
\* while looking for build-tools (lines 280-300).
ApksignerOutcomes ==
  {"absent", "exit0", "exit1", "TimeoutExpired", "OSError", "discovery_error"}

JarsignerOutcomes ==
  {"exit0_verified", "exit0_other", "exit1", "TimeoutExpired", "OSError"}

AllVerifiers == [apk |-> ApksignerOutcomes, jar |-> JarsignerOutcomes]

\* The verifier behaviour used when several jobs run together.
JobVerifiers == [apk |-> {"absent"}, jar |-> {"exit0_verified"}]

IsException(o) == o \in {"TimeoutExpired", "OSError", "discovery_error"}

\* Mutant of CaughtByVerify: a verifier's timeout escapes the step.
CaughtByVerify_NotTimeout(e) == e # "TimeoutExpired"

\* Lines 317, 333 and 347: "except Exception" around each verifier run and
\* around the whole step catches whatever was raised.
CaughtByVerify(e) == TRUE

\* Line 320: "if not signature_valid and jarsigner_cmd", reached unless the
\* search for apksigner raised.
JarsignerRuns(apk) == apk \notin {"exit0", "discovery_error"}

\* Lines 271-349: the advisory signature check; whatever it finds is only
\* logged.
Verify(j, verifiers) ==
  /\ pc[j] = "resolved"
  /\ \E apk \in verifiers.apk :
       \E jar \in (IF JarsignerRuns(apk) /\ (IsException(apk) => CaughtByVerify(apk))
                     THEN verifiers.jar ELSE {"not_run"}) :
         /\ apksigner' = [apksigner EXCEPT ![j] = apk]
         /\ jarsigner' = [jarsigner EXCEPT ![j] = jar]
         /\ signature_valid' = [signature_valid EXCEPT ![j] =
                                  apk = "exit0" \/ jar = "exit0_verified"]
         /\ IF IsException(apk) /\ ~CaughtByVerify(apk)
              THEN /\ exc' = [exc EXCEPT ![j] = apk]
                   /\ cwd' = TryChdir(original_cwd[j], cwd, dirs)
                   /\ pc' = [pc EXCEPT ![j] =
                               IF apk = "TimeoutExpired"
                                 THEN "timeout_cleanup" ELSE "except_cleanup"]
              ELSE IF IsException(jar) /\ ~CaughtByVerify(jar)
                THEN /\ exc' = [exc EXCEPT ![j] = jar]
                     /\ cwd' = TryChdir(original_cwd[j], cwd, dirs)
                     /\ pc' = [pc EXCEPT ![j] =
                                 IF jar = "TimeoutExpired"
                                   THEN "timeout_cleanup" ELSE "except_cleanup"]
                ELSE /\ pc' = [pc EXCEPT ![j] = "verified"]
                     /\ UNCHANGED <<exc, cwd>>
  /\ UNCHANGED <<req, temp_dir, original_cwd, result, output_files, file_data,
                 response, child, probes, launches, dirs, created, rootDirs,
                 written, java_check, cmd, config_checked, saved, child_cwd>>

\* Line 352: os.chdir(original_cwd).  When that directory is gone the call
\* raises into the handler of line 525, whose own chdir fails the same way.
RestoreCwd(j) ==
  /\ pc[j] = "verified"
  /\ IF Exists(original_cwd[j], dirs)
       THEN /\ cwd' = original_cwd[j]
            /\ pc' = [pc EXCEPT ![j] = "restored"]
            /\ UNCHANGED exc
       ELSE /\ exc' = [exc EXCEPT ![j] = "FileNotFoundError"]
            /\ pc' = [pc EXCEPT ![j] = "except_cleanup"]
            /\ UNCHANGED cwd
  /\ UNCHANGED <<req, temp_dir, original_cwd, result, output_files, file_data,
                 response, child, probes, launches, dirs, created, rootDirs,
                 written, java_check, cmd, config_checked, saved, apksigner,
                 jarsigner, signature_valid, child_cwd>>

\* Mutant of ReadFile: only the first byte is read.
ReadFile_FirstByte(f) == SubSeq(f.data, 1, 1)

\* Lines 395-396: f.read() of the whole output file.
ReadFile(f) == f.data

\* Lines 354-418: the first sweep of the project root, then the output file
\* is read into memory.
SweepLoad(j, faults) ==
  /\ pc[j] = "restored"
  /\ \E fault \in faults \ {"rmtree"} :
       rootDirs' = SweepUnder(rootDirs, SweepDumpFolders(rootDirs), fault)
  /\ \E read \in {"ok", "IOError"} :
       IF read = "IOError"
         THEN /\ Return(j, ErrorResponse(500, E_ReadFailed, read))
              /\ UNCHANGED file_data
         ELSE IF Len(ReadFile(output_files[j][1])) = 0
           THEN /\ Return(j, ErrorResponse(500, E_EmptyOutput, None))
                /\ UNCHANGED file_data
           ELSE /\ file_data' = [file_data EXCEPT ![j] =
                                   ReadFile(output_files[j][1])]
                /\ pc' = [pc EXCEPT ![j] = "loaded"]
                /\ UNCHANGED response
  /\ UNCHANGED <<req, temp_dir, original_cwd, result, exc, output_files, child,
                 probes, launches, cwd, dirs, created, written, java_check,
                 cmd, config_checked, saved, apksigner, jarsigner,
                 signature_valid, child_cwd>>

\* Lines 420-485: the workspace is removed, the project root swept again and
\* the 200 response built from the bytes in memory.
CleanupRespond(j, faults) ==
  /\ pc[j] = "loaded"
  /\ \E fault \in faults :
       /\ dirs' = RmtreeUnder(dirs, temp_dir[j], fault)
       /\ rootDirs' = SweepUnder(rootDirs, SweepDumpFolders(rootDirs), fault)
       /\ IF CleanupRaises(fault)
            THEN Return(j, ErrorResponse(500, E_RunError, "OSError"))
            ELSE Return(j, FileResponse(file_data[j],
                                        OutputFilename(req[j].filename)))
  /\ UNCHANGED <<req, temp_dir, original_cwd, result, exc, output_files,
                 file_data, child, probes, launches, cwd, created, written,
                 java_check, cmd, config_checked, saved, apksigner, jarsigner,
                 signature_valid, child_cwd>>

\* Lines 502-524: cleanup and response of the timeout handler.
TimeoutCleanup(j, faults) ==
  /\ pc[j] = "timeout_cleanup"
  /\ \E fault \in faults :
       /\ dirs' = RmtreeUnder(dirs, temp_dir[j], fault)
       /\ rootDirs' = SweepUnder(rootDirs, SweepPackageFolders(rootDirs), fault)
       /\ IF CleanupRaises(fault)
            THEN Return(j, OuterExcept("OSError"))
            ELSE Return(j, ErrorResponse(500, E_Timeout, None))
  /\ UNCHANGED <<req, temp_dir, original_cwd, result, exc, output_files,
                 file_data, child, probes, launches, cwd, created, written,
                 java_check, cmd, config_checked, saved, apksigner, jarsigner,
                 signature_valid, child_cwd>>

\* Lines 532-564: cleanup and response of the "except Exception" handler.
ExceptCleanup(j, faults) ==
  /\ pc[j] = "except_cleanup"
  /\ \E fault \in faults :
       /\ dirs' = RmtreeUnder(dirs, temp_dir[j], fault)
       /\ rootDirs' = SweepUnder(rootDirs, SweepPackageFolders(rootDirs), fault)
       /\ IF CleanupRaises(fault)
            THEN Return(j, OuterExcept("OSError"))
            ELSE Return(j, ErrorResponse(500, E_RunError, exc[j]))
  /\ UNCHANGED <<req, temp_dir, original_cwd, result, exc, output_files,
                 file_data, child, probes, launches, cwd, created, written,
                 java_check, cmd, config_checked, saved, apksigner, jarsigner,
                 signature_valid, child_cwd>>

Step(j, uploads, runs, verifiers, faults) ==
  \/ pc[j] = "idle" /\ \E r \in uploads : Receive(j, r)
  \/ Stage(j)
  \/ Probe(j)
  \/ GetCwd(j)
  \/ Chdir(j)
  \/ Launch(j)
  \/ ToolTimeout(j)
  \/ ToolExits(j, runs)
  \/ Verify(j, verifiers)
  \/ RestoreCwd(j)
  \/ SweepLoad(j, faults)
  \/ CleanupRespond(j, faults)
  \/ TimeoutCleanup(j, faults)
  \/ ExceptCleanup(j, faults)

\* Any number of requests up to NumJobs, handled concurrently.
Next ==
  \E j \in Jobs : Step(j, Requests, JobRuns, JobVerifiers, NoFaults)

Spec == Init /\ [][Next]_vars

\* The same with tools that may also exit zero leaving a file without bytes.
EmptyRuns == Runs({r \in JobToolResults : r.returncode = 0}, {<<F_empty>>})

NextEmpty ==
  \E j \in Jobs :
    Step(j, Requests, JobRuns \cup EmptyRuns, JobVerifiers, NoFaults)

SpecEmpty == Init /\ [][NextEmpty]_vars

\* One request handled alone, over every upload, tool behaviour, verifier
\* behaviour and cleanup fault of the model.
NextSingle ==
  Step(1, AllRequests,
       Runs(ToolResults, OutputListings \cup {CopyListing(req[1])}),
       AllVerifiers, CleanupFaults)

SpecSingle == Init /\ [][NextSingle]_vars

\* One valid upload handled alone, over every form of the model.
NextForm == Step(1, FormRequests, JobRuns, JobVerifiers, NoFaults)

SpecForm == Init /\ [][NextForm]_vars

(***************************************************************************)
(* Properties.                                                             *)
(***************************************************************************)
Done(j) == pc[j] = "done"
Acquired(j) == temp_dir[j] # NoDir
WorkspaceExists(j) == temp_dir[j] \in dirs

\* C1: once a job that acquired a workspace has produced its response, on
\* whatever path, its workspace directory no longer exists.
C1_WorkspaceRemovedAtResponse ==
  \A j \in Jobs : (Done(j) /\ Acquired(j)) => ~WorkspaceExists(j)

\* C2: an unexpected exception raised after the workspace was acquired is
\* answered with status 500 and a JSON error, and the workspace is removed
\* before that response is returned.
C2_ExceptionCleansWorkspace ==
  \A j \in Jobs :
    (Done(j) /\ Acquired(j) /\ response[j].error \in {E_ServerError, E_RunError})
      => (response[j].status = 500 /\ ~WorkspaceExists(j))

\* C3: when a job that reached the tool invocation returns its response,
\* the process working directory is the one the job recorded before its
\* os.chdir, on every outcome.
C3_CwdRestoredAtResponse ==
  [][\A j \in Jobs :
       (~Done(j) /\ pc'[j] = "done" /\ launches'[j] > 0)
         => cwd' = original_cwd'[j]]_vars

\* C4: whatever other jobs do, a job gets the response it would get alone;
\* in particular a job whose tool exited zero with a non-empty matching
\* output, and whose output could be read, returns 200.
C4_SuccessIndependentOfOtherJobs ==
  \A j \in Jobs :
    (/\ Done(j)
     /\ result[j].returncode = 0
     /\ output_files[j] # <<>>
     /\ Len(output_files[j][1].data) > 0
     /\ response[j].error # E_ReadFailed)
      => response[j].status = 200

C6_ToolFailedHasDiagnostics ==
  \A j \in Jobs :
    (Done(j) /\ result[j].returncode > 0)
      => /\ response[j].status = 500
         /\ response[j].error = E_ProtectionFailed
         /\ response[j].details # ""
         /\ response[j].body = <<>>

\* The validation failures: missing file part, empty filename, unsupported
\* extension, too large, already-processed marker.
InvalidUpload(r) ==
  \/ ~r.has_file
  \/ r.filename = <<>>
  \/ ~(endswith(lower(r.filename), DotApk) \/ endswith(lower(r.filename), DotAab))
  \/ r.file_size_bytes > 150 * 1024 * 1024
  \/ startswith(r.filename, Marker)

Received(j) == pc[j] # "idle"

\* C7: every validation failure ends the job with status 400 before any
\* workspace exists, and neither the probe nor the tool is launched.
C7_ValidationFailureIs400 ==
  \A j \in Jobs :
    (Received(j) /\ InvalidUpload(req[j]))
      => /\ Done(j)
         /\ response[j].status = 400
         /\ ~Acquired(j)
         /\ probes[j] = 0
         /\ launches[j] = 0

\* C8 as claimed: every filename beginning with 'protected_', whatever its
\* extension and size, fails with the already-protected error and no
\* workspace is allocated.
C8_MarkerAlwaysAlreadyProcessed ==
  \A j \in Jobs :
    (Received(j) /\ req[j].has_file /\ startswith(req[j].filename, Marker))
      => /\ Done(j)
         /\ response[j].error = E_AlreadyProtected
         /\ ~Acquired(j)

\* C8 as amended: every filename beginning with 'protected_' is rejected
\* with no workspace allocated and nothing launched; the error is the
\* already-protected one (400) when the extension is accepted and the
\* request is within the size limit, the unsupported-type one (400) when
\* the extension is not accepted and the request is within the size limit.
C8_MarkerRejected ==
  \A j \in Jobs :
    (Received(j) /\ req[j].has_file /\ startswith(req[j].filename, Marker))
      => /\ Done(j)
         /\ response[j].status # 200
         /\ ~Acquired(j)
         /\ probes[j] = 0
         /\ launches[j] = 0
         /\ (req[j].file_size_bytes + req[j].overhead <= 150 * 1024 * 1024
               => /\ response[j].status = 400
                  /\ response[j].error =
                       IF \/ endswith(lower(req[j].filename), DotApk)
                          \/ endswith(lower(req[j].filename), DotAab)
                         THEN E_AlreadyProtected
                         ELSE E_InvalidType)

C8_Witness ==
  \E j \in Jobs :
    /\ Done(j)
    /\ req[j].filename = N_protected_a_apk
    /\ response[j].status = 400
    /\ response[j].error = E_AlreadyProtected

\* C9: every upload whose byte length exceeds 150 MiB is answered with
\* status 400 and the too-large error, with no workspace and no tool run.
C9_TooLargeIs400 ==
  \A j \in Jobs :
    (Received(j) /\ req[j].has_file /\ req[j].file_size_bytes > 150 * 1024 * 1024)
      => /\ Done(j)
         /\ response[j].status = 400
         /\ response[j].error = E_TooLarge
         /\ ~Acquired(j)
         /\ launches[j] = 0

\* C10: every upload with an accepted extension, no 'protected_' prefix and
\* at most 150 MiB, exactly 150 MiB included, passes validation and goes on
\* to staging: it is never answered before mkdtemp was attempted.
C10_WithinLimitIsStaged ==
  \A j \in Jobs :
    (/\ Received(j)
     /\ req[j].has_file
     /\ endswith(lower(req[j].filename), DotApk) \/ endswith(lower(req[j].filename), DotAab)
     /\ ~startswith(req[j].filename, Marker)
     /\ req[j].file_size_bytes <= 150 * 1024 * 1024)
      => ((Done(j) /\ ~Acquired(j)) => response[j].details = "OSError")

\* The name ends in '.apk' or '.aab', letter case ignored.
EndsInPackageExtension(name) ==
  endswith(lower(name), DotApk) \/ endswith(lower(name), DotAab)

\* C11 as claimed: every filename that does not end in '.apk' or '.aab'
\* fails validation with the unsupported-type error (status 400).
C11_OtherExtensionIsUnsupportedType ==
  \A j \in Jobs :
    (Received(j) /\ req[j].has_file /\ ~EndsInPackageExtension(req[j].filename))
      => /\ Done(j)
         /\ response[j].status = 400
         /\ response[j].error = E_InvalidType

\* C11 as amended: every filename that does not end in '.apk' or '.aab' is
\* rejected with no workspace allocated; when the request is within the
\* size limit the status is 400, with the unsupported-type error for a
\* non-empty filename and the no-file-selected error for the empty one.
C11_OtherExtensionRejected ==
  \A j \in Jobs :
    (Received(j) /\ req[j].has_file /\ ~EndsInPackageExtension(req[j].filename))
      => /\ Done(j)
         /\ response[j].status # 200
         /\ ~Acquired(j)
         /\ (req[j].file_size_bytes + req[j].overhead <= 150 * 1024 * 1024
               => /\ response[j].status = 400
                  /\ response[j].error =
                       IF req[j].filename = <<>> THEN E_NoFilename
                                                 ELSE E_InvalidType)

C11_Witness ==
  \E j \in Jobs :
    /\ Done(j)
    /\ req[j].filename = N_a_txt
    /\ response[j].status = 400
    /\ response[j].error = E_InvalidType

\* The tool of job j has exited with code zero.
ExitedZero(j) == child[j] = "exited" /\ result[j].returncode = 0

\* No file the tool left under output_dir has a name ending in '.apk' or
\* '.aab'.
NothingMatches(listing) ==
  \A i \in 1..Len(listing) :
    ~(endswith(listing[i].name, DotApk) \/ endswith(listing[i].name, DotAab))

\* C12: when the tool exits zero and no file under the output directory ends
\* in '.apk' or '.aab', the job ends with status 500 'No output file
\* generated' and its response carries no bytes.
C12_NoOutputProduced ==
  \A j \in Jobs :
    (ExitedZero(j) /\ NothingMatches(written[j]))
      => /\ Done(j)
         /\ response[j].status = 500
         /\ response[j].error = E_NoOutput
         /\ response[j].body = <<>>
         /\ file_data[j] = <<>>

C12_Witness ==
  \E j \in Jobs :
    /\ ExitedZero(j)
    /\ written[j] = <<F_json>>
    /\ response[j].error = E_NoOutput

\* The tool of job j copied the staged input into output_dir and exited zero.
CopiedAndExitedZero(j) ==
  /\ ExitedZero(j)
  /\ written[j] = CopyListing(req[j])
  /\ req[j].file_size_bytes > 0

\* C13: with a tool that copies the staged input unchanged and exits zero, a
\* valid non-empty upload is answered 200 with the uploaded bytes as body and
\* 'protected_' + secure_filename(name) as filename (a failing read of the
\* output file aside).
C13_RoundTrip ==
  \A j \in Jobs :
    (CopiedAndExitedZero(j) /\ Done(j) /\ response[j].error # E_ReadFailed)
      => /\ response[j].status = 200
         /\ response[j].body = UploadData(req[j])
         /\ response[j].filename = Marker \o secure_filename(req[j].filename)

\* The options in the documented order, the flag of each, and what its
\* selection adds to the argument vector.
OptionOrder ==
  <<"debug", "disable_acf", "dump_code", "keep_classes", "noisy_log",
    "smaller", "exclude_abis", "use_protect_config">>

FlagOf(o) ==
  CASE o = "debug" -> Lit("--debug")
    [] o = "disable_acf" -> Lit("--disable-acf")
    [] o = "dump_code" -> Lit("--dump-code")
    [] o = "keep_classes" -> Lit("-K")
    [] o = "noisy_log" -> Lit("--noisy-log")
    [] o = "smaller" -> Lit("-S")
    [] o = "exclude_abis" -> Lit("-e")
    [] o = "use_protect_config" -> Lit("-c")

\* The caller selected option o: a flag field sent as 'true', a list of
\* architectures that is not blank.
Selected(form, o) ==
  IF o = "exclude_abis" THEN strip(form.exclude_abis) # <<>>
  ELSE form[o] = "true"

ArgsOf(form, o) ==
  IF o = "exclude_abis" THEN <<FlagOf(o), Value(strip(form.exclude_abis))>>
  ELSE IF o = "use_protect_config" THEN <<FlagOf(o), config_file>>
  ELSE <<FlagOf(o)>>

\* The arguments of the selected options from position i of OptionOrder on;
\* the configuration template counts only when template holds.
RECURSIVE OptionArgs(_, _, _)
OptionArgs(form, i, template) ==
  IF i > Len(OptionOrder) THEN <<>>
  ELSE (IF /\ Selected(form, OptionOrder[i])
           /\ (OptionOrder[i] = "use_protect_config" => template)
          THEN ArgsOf(form, OptionOrder[i]) ELSE <<>>)
         \o OptionArgs(form, i + 1, template)

FixedPrefix(j) ==
  <<java_cmd, Lit("-jar"), DPT_JAR_PATH,
    Lit("-f"), input_file_path(temp_dir[j], req[j].filename),
    Lit("-o"), output_dir(temp_dir[j])>>

Launched(j) == launches[j] > 0

TemplateExists(j) == config_checked[j] = "exists"

\* C14 as stated: the argument vector of a launched tool is the fixed prefix
\* followed by the flags of the selected options in the documented order.
C14_ArgvIsPrefixThenSelectedFlags ==
  \A j \in Jobs :
    Launched(j) => cmd[j] = FixedPrefix(j) \o OptionArgs(req[j].form, 1, TRUE)

\* C14 amended: the argument vector of a launched tool is the fixed prefix
\* followed by the flags of the selected options in the documented order,
\* '-c <config>' only when the bundled template file exists; with no option
\* selected what follows the tool path is exactly -f <path> -o <dir>.
C14_ArgvIsPrefixThenAvailableFlags ==
  \A j \in Jobs :
    Launched(j)
      => /\ cmd[j] = FixedPrefix(j)
                       \o OptionArgs(req[j].form, 1, TemplateExists(j))
         /\ (\A i \in DOMAIN OptionOrder : ~Selected(req[j].form, OptionOrder[i]))
              => SubSeq(cmd[j], 4, Len(cmd[j]))
                   = <<Lit("-f"), input_file_path(temp_dir[j], req[j].filename),
                       Lit("-o"), output_dir(temp_dir[j])>>

C14_Witness ==
  \E j \in Jobs :
    /\ Launched(j)
    /\ \A i \in DOMAIN OptionOrder : Selected(req[j].form, OptionOrder[i])
    /\ TemplateExists(j)
    /\ Len(cmd[j]) = 17

HasFlag(argv, flag) == \E i \in DOMAIN argv : argv[i] = flag

HasFlagWith(argv, flag, arg) ==
  \E i \in 1..(Len(argv) - 1) : argv[i] = flag /\ argv[i + 1] = arg

\* C15 as stated: the flag of each of the eight options is in the argument
\* vector of a launched tool exactly when the option is selected.
C15_FlagIffSelected ==
  \A j \in Jobs :
    Launched(j)
      => \A i \in DOMAIN OptionOrder :
           HasFlag(cmd[j], FlagOf(OptionOrder[i]))
             <=> Selected(req[j].form, OptionOrder[i])

\* C15 amended: the flag of each option is in the argument vector of a
\* launched tool exactly when the option is selected, except that '-c' also
\* needs the bundled template file to exist; exclude_abis='x86,x86_64' gives
\* '-e x86,x86_64' and '-c' is followed by the template's path.
C15_FlagIffSelectedAndAvailable ==
  \A j \in Jobs :
    Launched(j)
      => /\ \A i \in DOMAIN OptionOrder :
              HasFlag(cmd[j], FlagOf(OptionOrder[i]))
                <=> /\ Selected(req[j].form, OptionOrder[i])
                    /\ (OptionOrder[i] = "use_protect_config"
                          => TemplateExists(j))
         /\ req[j].form.exclude_abis = <<Abis_x86>>
              => HasFlagWith(cmd[j], Lit("-e"), Value(<<Abis_x86>>))
         /\ HasFlag(cmd[j], Lit("-c"))
              => HasFlagWith(cmd[j], Lit("-c"), config_file)

C15_Witness ==
  \E j \in Jobs :
    /\ Launched(j)
    /\ req[j].form.debug = "false"
    /\ req[j].form.exclude_abis = <<Abis_x86>>
    /\ req[j].form.use_protect_config = "true"
    /\ config_checked[j] = "missing"
    /\ ~HasFlag(cmd[j], Lit("-c"))

\* C16: the tool is launched only after the probe of the same job answered;
\* a probe that timed out after 5 seconds, or whose runtime was not found,
\* ends the job with status 500 'Java JDK 21 is not installed or not found in
\* PATH' and the tool is never launched for it.
C16_ProbeBeforeTool ==
  \A j \in Jobs :
    /\ Launched(j) => (probes[j] > 0 /\ java_check[j] = "ok")
    /\ child[j] # "none" => Launched(j)
    /\ java_check[j] \in {"TimeoutExpired", "FileNotFoundError"}
         => /\ Done(j)
            /\ response[j].status = 500
            /\ response[j].error = E_Java
            /\ ~Launched(j)
            /\ child[j] = "none"

C16_Witness ==
  \E j, k \in Jobs :
    /\ java_check[j] = "TimeoutExpired"
    /\ Done(j)
    /\ java_check[k] = "ok"
    /\ Launched(k)

\* The verification step of job j is over.
VerificationRan(j) == apksigner[j] # "not_run"

\* What a job answers once its output is resolved, whatever verification
\* found: decided by the output file alone.
ResponseFor(j) ==
  IF Len(output_files[j][1].data) = 0
    THEN ErrorResponse(500, E_EmptyOutput, None)
    ELSE FileResponse(output_files[j][1].data,
                      Marker \o secure_filename(req[j].filename))

\* C17: whatever the verifiers do (missing, non-zero exit, output that does
\* not match, timeout or another exception), the job goes on to load the
\* output, and its response is the one a verified output gets (a failing
\* read of the output file aside).
C17_VerificationNeverFailsJob ==
  \A j \in Jobs :
    VerificationRan(j)
      => /\ pc[j] \in {"verified", "restored", "loaded", "done"}
         /\ exc[j] = None
         /\ (Done(j) /\ response[j].error # E_ReadFailed)
              => response[j] = ResponseFor(j)

C17_Witness ==
  \E j \in Jobs :
    /\ apksigner[j] = "TimeoutExpired"
    /\ jarsigner[j] = "exit0_other"
    /\ ~signature_valid[j]
    /\ Done(j)
    /\ response[j].status = 200

\* The output file of job j is resolved / is resolved and holds no bytes.
Resolved(j) == output_files[j] # <<>>

ResolvedEmpty(j) == Resolved(j) /\ Len(output_files[j][1].data) = 0

\* C18: a job whose resolved output file holds no bytes ends with status 500
\* 'Protected file is empty' (a failing read aside) and no job answers 200
\* with an empty body; a non-empty file is whole in memory while the
\* workspace still exists.
C18_EmptyOutputFails ==
  \A j \in Jobs :
    /\ (Done(j) /\ ResolvedEmpty(j) /\ response[j].error # E_ReadFailed)
         => (response[j].status = 500 /\ response[j].error = E_EmptyOutput)
    /\ response[j].status = 200 => response[j].body # <<>>
    /\ pc[j] = "loaded"
         => (file_data[j] = output_files[j][1].data /\ WorkspaceExists(j))

\* The states of a job between staging and the removal of its workspace on
\* the way to a 200.
OnSuccessPath(j) ==
  pc[j] \in {"staged", "probed", "cwd_saved", "in_ws", "running", "resolved",
             "verified", "restored", "loaded"}

C20_StepOrder ==
  \A j \in Jobs :
    /\ probes[j] > 0 => saved[j]
    /\ Launched(j) => (saved[j] /\ java_check[j] = "ok")
    /\ Resolved(j) => (Launched(j) /\ ExitedZero(j))
    /\ VerificationRan(j) => Resolved(j)
    /\ file_data[j] # <<>> => VerificationRan(j)
    /\ pc[j] = "loaded" => (file_data[j] # <<>> /\ WorkspaceExists(j))
    /\ response[j].status = 200
         => /\ file_data[j] # <<>>
            /\ response[j].body = file_data[j]
            /\ ~WorkspaceExists(j)

C20_Witness ==
  \E j \in Jobs :
    /\ response[j].status = 200
    /\ probes[j] = 1
    /\ launches[j] = 1
    /\ VerificationRan(j)
    /\ \E k \in Jobs : result[k].returncode = 1 /\ ~Resolved(k)

\* The job has failed: it answered something other than 200, or one of the
\* handlers of lines 495 and 525 is cleaning up.
Failed(j) ==
  \/ Done(j) /\ response[j].status # 200
  \/ pc[j] \in {"timeout_cleanup", "except_cleanup"}

\* C21: a job runs the probe at most once and the tool at most once, it has
\* a response exactly when its handler has ended, and once it has failed no
\* tool of it is running.
C21_NothingRetried ==
  \A j \in Jobs :
    /\ probes[j] <= 1
    /\ launches[j] <= 1
    /\ response[j] # NoResponse <=> Done(j)
    /\ Failed(j) => child[j] # "running"

C21_Witness ==
  \E j, k \in Jobs :
    /\ Done(j) /\ response[j].status = 500 /\ launches[j] = 1
    /\ child[j] = "killed"
    /\ Done(k) /\ response[k].error = E_Java /\ probes[k] = 1

\* C22: a finished request has status 200, 400 or 500.  200 comes only after
\* the probe answered, the tool exited zero and a matching output file with
\* bytes was resolved, and carries those bytes with Content-Length equal to
\* their number; 400 comes only for an upload that fails validation; every
\* other end is a 500 with an error text and no bytes.
C22_StatusIs200Or400Or500 ==
  \A j \in Jobs :
    Done(j)
      => /\ response[j].status \in {200, 400, 500}
         /\ response[j].status = 200
              => /\ java_check[j] = "ok"
                 /\ ExitedZero(j)
                 /\ Resolved(j)
                 /\ response[j].body = output_files[j][1].data
                 /\ response[j].body # <<>>
                 /\ response[j].content_length = Len(response[j].body)
                 /\ response[j].error = None
         /\ response[j].status = 400
              => (InvalidUpload(req[j]) /\ ~Acquired(j) /\ probes[j] = 0)
         /\ response[j].status # 200
              => (response[j].error # None /\ response[j].body = <<>>)
         /\ (java_check[j] \notin {"none", "ok"}
               \/ (child[j] = "exited" /\ ToolFailed(result[j]))
               \/ exc[j] # None \/ (ExitedZero(j) /\ ~Resolved(j)))
              => response[j].status = 500

C22_Witness ==
  \E j \in Jobs :
    /\ Done(j)
    /\ response[j].status = 200
    /\ response[j].content_length = 2
    /\ req[j].filename = N_b_aab

\* The job has its workspace and its handler has not ended.
Alive(j) == Acquired(j) /\ ~Done(j)

InputPathOf(j) == input_file_path(temp_dir[j], req[j].filename)

OutputDirOf(j) == output_dir(temp_dir[j])

\* C23: two jobs alive together have different workspaces, staged input
\* paths and output directories; the tool of a job is given the job's own
\* paths, and the workspace of a live job is never removed by another job.
C23_WorkspacesDisjoint ==
  /\ \A j, k \in Jobs :
       (j < k /\ Alive(j) /\ Alive(k))
         => LET in_j == InputPathOf(j)
                in_k == InputPathOf(k)
            IN  /\ temp_dir[j] # temp_dir[k]
                /\ in_j # in_k
                /\ OutputDirOf(j) # OutputDirOf(k)
                /\ in_j # OutputDirOf(k)
                /\ in_k # OutputDirOf(j)
  /\ \A j \in Jobs :
       /\ Alive(j) => WorkspaceExists(j)
       /\ Launched(j)
            => /\ HasFlagWith(cmd[j], Lit("-f"), InputPathOf(j))
               /\ HasFlagWith(cmd[j], Lit("-o"), OutputDirOf(j))

C23_Witness ==
  \E j, k \in Jobs :
    /\ j # k
    /\ pc[j] = "running"
    /\ pc[k] = "loaded"
    /\ req[j].filename = req[k].filename

\* A directory of the project root that the sweep is meant for.
StrayArtifact(d) ==
  /\ \E i \in 1..Len(d.name) : d.name[i] = "."
  /\ d.name # <<"v", "e", "n", "v">>
  /\ d.name[1] # "."
  /\ d.has_json

\* C24: whatever the jobs do, the directories missing from the project root
\* are directories with a dot in the name, not named 'venv', not starting
\* with a dot, and holding a '.json' file; all others are still there.
C24_OnlyStrayArtifactsRemoved ==
  /\ rootDirs \subseteq ProjectRootDirs
  /\ \A d \in ProjectRootDirs \ rootDirs : StrayArtifact(d)

\* C25: the child process of every started tool has the job's own workspace
\* as working directory, whatever the process-wide working directory was at
\* the time of the launch.
C25_ChildStartsInOwnWorkspace ==
  \A j \in Jobs :
    child[j] # "none"
      => (child_cwd[j] = temp_dir[j] /\ child_cwd[j] \in created)

C25_Witness ==
  \E j \in Jobs :
    /\ child[j] = "running"
    /\ child_cwd[j] = temp_dir[j]
    /\ cwd # temp_dir[j]

\* C26: removing a workspace that is already gone changes nothing, and a
\* cleanup that fails (the tree cannot be removed, the project root cannot
\* be listed) leaves the response as it is without the failure: 200 with
\* the loaded bytes, the timeout error, or the error of the exception.
C26_CleanupNeverChangesResponse ==
  /\ \A d \in TmpNames :
       /\ Rmtree(Rmtree(dirs, d), d) = Rmtree(dirs, d)
       /\ d \notin dirs => Rmtree(dirs, d) = dirs
  /\ \A j \in Jobs :
       Done(j)
         => /\ file_data[j] # <<>>
                 => response[j] = FileResponse(file_data[j],
                                   Marker \o secure_filename(req[j].filename))
            /\ exc[j] = "TimeoutExpired"
                 => response[j] = ErrorResponse(500, E_Timeout, None)
            /\ exc[j] \notin {None, "TimeoutExpired"}
                 => response[j] = ErrorResponse(500, E_RunError, exc[j])

\* A 200 although the workspace could not be removed.
C26_Witness ==
  \E j \in Jobs :
    /\ Done(j)
    /\ response[j].status = 200
    /\ WorkspaceExists(j)

\* C27: once verification is over, jarsigner has been run exactly when
\* apksigner was not available or did not verify the file, and the file
\* counts as verified exactly when apksigner exited zero or jarsigner exited
\* zero with 'jar verified' in its output.
C27_VerifierFallback ==
  \A j \in Jobs :
    VerificationRan(j)
      => /\ jarsigner[j] # "not_run" <=> apksigner[j] # "exit0"
         /\ signature_valid[j]
              <=> (apksigner[j] = "exit0" \/ jarsigner[j] = "exit0_verified")

\* The validation error the stated precedence gives an invalid upload.
PrecedenceError(r) ==
  IF ~r.has_file THEN E_NoFile
  ELSE IF r.filename = <<>> THEN E_NoFilename
  ELSE IF ~EndsInPackageExtension(r.filename) THEN E_InvalidType
  ELSE IF r.file_size_bytes > 150 * 1024 * 1024 THEN E_TooLarge
  ELSE E_AlreadyProtected

\* C28: an upload that breaks one or more validation rules is answered with
\* the error of the first rule it breaks in the order: file part missing,
\* filename empty, extension unsupported, too large, marker present.
C28_ValidationPrecedence ==
  \A j \in Jobs :
    (Received(j) /\ InvalidUpload(req[j]))
      => /\ Done(j)
         /\ response[j].error = PrecedenceError(req[j])

\* C29: the process working directory always exists (it is never a removed
\* workspace), and no job is ended by os.getcwd or os.chdir raising.
C29_CwdNeverRemoved ==
  /\ Exists(cwd, dirs)
  /\ \A j \in Jobs :
       /\ exc[j] # "FileNotFoundError"
       /\ (Done(j) /\ java_check[j] = "ok") => Launched(j)

\* C30: a tool that leaves its result under the staged input's own file name
\* and exits zero has its result found: every name the validator accepts is
\* a name the output scan matches, and the job does not end with 'No output
\* file generated'.
C30_AcceptedNamesAreResolved ==
  \A j \in Jobs :
    (ExitedZero(j) /\ written[j] = CopyListing(req[j]))
      => /\ ExtensionAccepted(req[j].filename)
         /\ OutputMatches(written[j][1])
         /\ Resolved(j)
         /\ response[j].error # E_NoOutput

====
